---- MODULE Spec2Model ----
(***************************************************************************)
(* APIC VLAN validation tool: the text parsers, the allowance validator,   *)
(* the denied-path reconstruction (generateCSV and the export loop of the  *)
(* application) and the application's entry list.                          *)
(*                                                                         *)
(* Text is modelled as TLA+ strings, read character by character with      *)
(* SubSeq; the regular expressions of the source are run by a small        *)
(* backtracking matcher (greedy, leftmost) over patterns written element   *)
(* by element.                                                             *)
(***************************************************************************)
EXTENDS Integers, Sequences, FiniteSets, TLC

VARIABLES build, moqueryInput, entries, pathAttachments, error, csv, nextId, call

vars == <<build, moqueryInput, entries, pathAttachments, error, csv, nextId, call>>

appVars == <<moqueryInput, entries, pathAttachments, error, csv, nextId>>

(***************************************************************************)
(* Characters and strings                                                  *)
(***************************************************************************)

Ch(s, i) == SubSeq(s, i, i)

\* String.prototype.toLowerCase, one character (ASCII letters)
Lower(c) ==
  CASE c = "A" -> "a" [] c = "B" -> "b" [] c = "C" -> "c" [] c = "D" -> "d"
    [] c = "E" -> "e" [] c = "F" -> "f" [] c = "G" -> "g" [] c = "H" -> "h"
    [] c = "I" -> "i" [] c = "J" -> "j" [] c = "K" -> "k" [] c = "L" -> "l"
    [] c = "M" -> "m" [] c = "N" -> "n" [] c = "O" -> "o" [] c = "P" -> "p"
    [] c = "Q" -> "q" [] c = "R" -> "r" [] c = "S" -> "s" [] c = "T" -> "t"
    [] c = "U" -> "u" [] c = "V" -> "v" [] c = "W" -> "w" [] c = "X" -> "x"
    [] c = "Y" -> "y" [] c = "Z" -> "z" [] OTHER -> c

RECURSIVE toLowerCase(_)
toLowerCase(s) ==
  IF s = "" THEN "" ELSE Lower(Ch(s, 1)) \o toLowerCase(SubSeq(s, 2, Len(s)))

IsDigit(c) == c \in {"0", "1", "2", "3", "4", "5", "6", "7", "8", "9"}

\* \s of the regular expressions and the white space String.prototype.trim removes
IsSpace(c) == c \in {" ", "\t", "\n", "\r"}

IsLetter(c) == Lower(c) \in {"a", "b", "c", "d", "e", "f", "g", "h", "i", "j", "k", "l", "m",
                             "n", "o", "p", "q", "r", "s", "t", "u", "v", "w", "x", "y", "z"}

\* \w of the regular expressions
IsWord(c) == IsDigit(c) \/ IsLetter(c) \/ c = "_"

RECURSIVE TrimStart(_)
TrimStart(s) ==
  IF s # "" /\ IsSpace(Ch(s, 1)) THEN TrimStart(SubSeq(s, 2, Len(s))) ELSE s

RECURSIVE TrimEnd(_)
TrimEnd(s) ==
  IF s # "" /\ IsSpace(Ch(s, Len(s))) THEN TrimEnd(SubSeq(s, 1, Len(s) - 1)) ELSE s

\* String.prototype.trim
trim(s) == TrimEnd(TrimStart(s))

\* path.replace(/[\[\]]/g, '')
RECURSIVE StripBrackets(_)
StripBrackets(s) ==
  IF s = "" THEN ""
  ELSE (IF Ch(s, 1) \in {"[", "]"} THEN "" ELSE Ch(s, 1)) \o StripBrackets(SubSeq(s, 2, Len(s)))

\* s.includes(t), case-sensitive
includes(s, t) == \E p \in 1..(Len(s) - Len(t) + 1) : SubSeq(s, p, p + Len(t) - 1) = t

\* s.startsWith(t)
startsWith(s, t) == Len(s) >= Len(t) /\ SubSeq(s, 1, Len(t)) = t

\* the least member of a non-empty set of integers
Least(S) == CHOOSE x \in S : \A y \in S : x <= y

\* input.split('\n'): one piece per newline, and the rest
RECURSIVE SplitFrom(_, _)
SplitFrom(s, from) ==
  LET nl == {p \in from..Len(s) : Ch(s, p) = "\n"}
  IN IF nl = {} THEN <<SubSeq(s, from, Len(s))>>
     ELSE <<SubSeq(s, from, Least(nl) - 1)>> \o SplitFrom(s, Least(nl) + 1)

split(s) == SplitFrom(s, 1)

\* rows.join('\n')
RECURSIVE join(_)
join(rows) ==
  IF rows = <<>> THEN ""
  ELSE IF Len(rows) = 1 THEN rows[1]
  ELSE rows[1] \o "\n" \o join(Tail(rows))

(***************************************************************************)
(* Regular expressions.  A pattern is a sequence of elements               *)
(*   [t |-> "lit", s |-> text]      the literal text                       *)
(*   [t |-> "run", s |-> class, min, max]   class+, class* or class{lo,hi} *)
(*   [t |-> "one", s |-> class]     one character of the class             *)
(*   [t |-> "wb"]                   \b                                     *)
(*   [t |-> "bol"]                  ^                                      *)
(* ci is the i flag.  A match is the sequence of the positions where each  *)
(* element starts, followed by the position after the match; <<>> is no    *)
(* match.                                                                  *)
(***************************************************************************)

Lit(text) == [t |-> "lit", s |-> text, min |-> 0, max |-> 0]
Plus(class) == [t |-> "run", s |-> class, min |-> 1, max |-> -1]
Star(class) == [t |-> "run", s |-> class, min |-> 0, max |-> -1]
Rep(class, lo, hi) == [t |-> "run", s |-> class, min |-> lo, max |-> hi]
One(class) == [t |-> "one", s |-> class, min |-> 1, max |-> 1]
WordB == [t |-> "wb", s |-> "", min |-> 0, max |-> 0]
Bol == [t |-> "bol", s |-> "", min |-> 0, max |-> 0]

InClass(c, class, ci) ==
  CASE class = "digit" -> IsDigit(c)                                   \* \d
    [] class = "space" -> IsSpace(c)                                   \* \s
    [] class = "any" -> c \notin {"\n", "\r"}                                    \* .
    [] class = "notslash" -> c # "/"                                   \* [^\/]
    [] class = "notrbracket" -> c # "]"                                \* [^\]]
    [] class = "digdash" -> IsDigit(c) \/ c = "-"                      \* [\d-]
    [] class = "idX" -> IsDigit(c) \/ c \in {"(", ")", "X"} \/ (ci /\ c = "x")         \* [\d()X]
    [] class = "idXdash" -> IsDigit(c) \/ c \in {"(", ")", "X", "-"} \/ (ci /\ c = "x") \* [\d()X-]
    [] class = "dashslash" -> c \in {"-", "/"}                         \* [-\/]

LitAt(s, pos, text, ci) ==
  /\ pos + Len(text) - 1 <= Len(s)
  /\ IF ci THEN \A i \in 1..Len(text) : Lower(Ch(s, pos + i - 1)) = Lower(Ch(text, i))
           ELSE SubSeq(s, pos, pos + Len(text) - 1) = text

\* the length of the longest run of the class at pos
RECURSIVE RunLen(_, _, _, _)
RunLen(s, pos, class, ci) ==
  IF pos <= Len(s) /\ InClass(Ch(s, pos), class, ci) THEN 1 + RunLen(s, pos + 1, class, ci) ELSE 0

WordBoundary(s, pos) ==
  (pos > 1 /\ IsWord(Ch(s, pos - 1))) # (pos <= Len(s) /\ IsWord(Ch(s, pos)))

RECURSIVE MatchFrom(_, _, _, _, _), TryRun(_, _, _, _, _, _)
MatchFrom(s, pos, pat, k, ci) ==
  IF k > Len(pat) THEN <<pos>>
  ELSE LET e == pat[k]
           Then(p) == LET r == MatchFrom(s, p, pat, k + 1, ci)
                      IN IF r = <<>> THEN <<>> ELSE <<pos>> \o r
       IN CASE e.t = "lit" -> IF LitAt(s, pos, e.s, ci) THEN Then(pos + Len(e.s)) ELSE <<>>
            [] e.t = "run" -> LET n == RunLen(s, pos, e.s, ci)
                              IN TryRun(s, pos, pat, k, ci, IF e.max >= 0 /\ n > e.max THEN e.max ELSE n)
            [] e.t = "one" -> IF pos <= Len(s) /\ InClass(Ch(s, pos), e.s, ci)
                              THEN Then(pos + 1) ELSE <<>>
            [] e.t = "wb" -> IF WordBoundary(s, pos) THEN Then(pos) ELSE <<>>
            [] e.t = "bol" -> IF pos = 1 THEN Then(pos) ELSE <<>>

\* greedy: the longest run first, then shorter ones (backtracking)
TryRun(s, pos, pat, k, ci, n) ==
  IF n < pat[k].min THEN <<>>
  ELSE LET r == MatchFrom(s, pos + n, pat, k + 1, ci)
       IN IF r # <<>> THEN <<pos>> \o r ELSE TryRun(s, pos, pat, k, ci, n - 1)

\* leftmost match
RECURSIVE SearchFrom(_, _, _, _)
SearchFrom(s, pat, ci, p) ==
  IF p > Len(s) + 1 THEN <<>>
  ELSE LET r == MatchFrom(s, p, pat, 1, ci)
       IN IF r # <<>> THEN r ELSE SearchFrom(s, pat, ci, p + 1)

\* s.match(pattern)
match(s, pat, ci) == SearchFrom(s, pat, ci, 1)

\* the text matched by elements i..j of the pattern (a capture group)
Group(s, m, i, j) == SubSeq(s, m[i], m[j + 1] - 1)

(***************************************************************************)
(* apicParser.ts.  A nullable value is a sequence of length 0 (null) or 1. *)
(* A Map is a function on its keys; a Set is the sequence of its members   *)
(* in insertion order.                                                     *)
(***************************************************************************)

\* Set.prototype.add
SetAdd(set, x) == IF \E i \in 1..Len(set) : set[i] = x THEN set ELSE Append(set, x)

\* Map.prototype.set
MapSet(m, k, v) == [x \in DOMAIN m \cup {k} |-> IF x = k THEN v ELSE m[x]]

EmptyMap == [x \in {} |-> ""]

ipPattern ==
  <<WordB, Rep("digit", 1, 3), Lit("."), Rep("digit", 1, 3), Lit("."),
    Rep("digit", 1, 3), Lit("."), Rep("digit", 1, 3), WordB>>

vlanPattern == <<Lit("vlan-"), Plus("digit")>>

nodeInterfacePattern ==
  <<Plus("digit"), Plus("space"), Lit("eth"), Plus("digit"), Lit("/"), Plus("digit"),
    Plus("space"), Star("any"), Lit("vlan-"), Plus("digit")>>

vpcPatterns ==
  << <<Lit("vpc"), Plus("space"), Plus("digdash"), Lit("-VPC-"), Plus("digdash"), Lit("-PG")>>,
     <<WordB, Plus("digit"), Lit("-"), Plus("digit"), Lit("-VPC-"), Plus("digit"), Lit("-"),
       Plus("digit"), Lit("-PG"), WordB>>,
     <<Plus("digit"), Lit("-"), Plus("digit"), Lit("-VPC-"), Plus("digit"), Lit("-"),
       Plus("digit"), Lit("-PG")>> >>

\* the capture group of each of vpcPatterns, as first and last element
vpcGroup == << <<3, 6>>, <<2, 9>>, <<1, 8>> >>

\* the text of a capture group (elements i..j) of match m, "" when there is no match
GroupOr(s, m, i, j) == IF m # <<>> THEN Group(s, m, i, j) ELSE ""

\* the first of vpcPatterns that matches the line: its capture group, else ""
RECURSIVE FirstVpcMatch(_, _)
FirstVpcMatch(line, k) ==
  IF k > Len(vpcPatterns) THEN ""
  ELSE LET found == GroupOr(line, match(line, vpcPatterns[k], TRUE), vpcGroup[k][1], vpcGroup[k][2])
       IN IF found # "" THEN found ELSE FirstVpcMatch(line, k + 1)

\* the body of the loop over the lines, first declaration, given what the regular
\* expressions matched: the IP of the line, its VLAN, its node and interface, its VPC path
EndpointLineWith(acc, currentLineIP, lineVlan, node, interface_, vpcPath) ==
  LET paths1 == IF interface_ # "" THEN SetAdd(acc.paths, interface_) ELSE acc.paths
      ips1 == IF interface_ # "" /\ currentLineIP # ""
              THEN MapSet(acc.ips, interface_, currentLineIP) ELSE acc.ips
  IN [vlan |-> IF lineVlan # "" /\ acc.vlan = "" THEN lineVlan ELSE acc.vlan,
      ip |-> IF currentLineIP # "" /\ acc.ip = "" THEN currentLineIP ELSE acc.ip,
      paths |-> IF vpcPath # "" THEN SetAdd(paths1, vpcPath) ELSE paths1,
      nodes |-> IF interface_ # "" THEN MapSet(acc.nodes, interface_, node) ELSE acc.nodes,
      ips |-> IF vpcPath # "" /\ currentLineIP # "" THEN MapSet(ips1, vpcPath, currentLineIP) ELSE ips1]

NodeInterface(line, niMatch) ==
  <<GroupOr(line, niMatch, 1, 1), GroupOr(line, niMatch, 3, 6)>>

EndpointLineNi(acc, line, ni) ==
  EndpointLineWith(acc,
                   GroupOr(line, match(line, ipPattern, FALSE), 2, 8),
                   GroupOr(line, match(line, vlanPattern, TRUE), 2, 2),
                   ni[1], ni[2],
                   FirstVpcMatch(line, 1))

\* one iteration of the loop over the lines, first declaration
EndpointLine(acc, line) ==
  IF trim(line) = "" \/ (includes(line, "Node") /\ includes(line, "Interface")) THEN acc
  ELSE EndpointLineNi(acc, line, NodeInterface(line, match(line, nodeInterfacePattern, TRUE)))

vpcPatternOld1 ==
  <<Lit("vpc"), Plus("space"), Plus("digdash"), Lit("-VPC-"), Plus("digdash"), Lit("-PG")>>

vpcPatternOld2 ==
  <<WordB, Plus("digdash"), Lit("-"), Plus("digdash"), Lit("-VPC-"), Plus("digdash"), Lit("-"),
    Plus("digdash"), Lit("-PG"), WordB>>

\* the body of the loop over the lines, second declaration, given what the regular
\* expressions matched
EndpointLineOldWith(acc, lineVlan, vpc1, vpc2) ==
  [acc EXCEPT
     !.vlan = IF lineVlan # "" THEN lineVlan ELSE @,
     !.paths = IF vpc1 # "" THEN SetAdd(@, vpc1)
               ELSE IF vpc2 # "" THEN SetAdd(@, vpc2)
               ELSE @]

\* one iteration of the loop over the lines, second declaration
EndpointLineOld(acc, line) ==
  EndpointLineOldWith(acc,
                      GroupOr(line, match(line, vlanPattern, TRUE), 2, 2),
                      GroupOr(line, match(line, vpcPatternOld1, TRUE), 3, 6),
                      GroupOr(line, match(line, vpcPatternOld2, TRUE), 2, 9))

RECURSIVE EndpointLoop(_, _, _, _)
EndpointLoop(acc, lines, i, decl) ==
  IF i > Len(lines) THEN acc
  ELSE EndpointLoop(IF decl = 1 THEN EndpointLine(acc, lines[i]) ELSE EndpointLineOld(acc, lines[i]),
                    lines, i + 1, decl)

EndpointAcc(input, decl) ==
  EndpointLoop([vlan |-> "", ip |-> "", paths |-> <<>>, nodes |-> EmptyMap, ips |-> EmptyMap],
               split(trim(input)), 1, decl)

\* a result that forgets to require a path
EndpointResultVlanOnly(acc) ==
  IF acc.vlan # ""
  THEN <<[vlan |-> acc.vlan, ip |-> acc.ip, paths |-> acc.paths, pod |-> "",
          pathsWithNodes |-> acc.nodes, pathsWithIPs |-> acc.ips]>>
  ELSE <<>>

EndpointResult(acc) ==
  IF acc.vlan # "" /\ Len(acc.paths) > 0
  THEN <<[vlan |-> acc.vlan, ip |-> acc.ip, paths |-> acc.paths, pod |-> "",
          pathsWithNodes |-> acc.nodes, pathsWithIPs |-> acc.ips]>>
  ELSE <<>>

\* apicParser.ts declares parseEndpointOutput twice (lines 24 and 312); decl is
\* the declaration the call is bound to.  The record of the second declaration has
\* no pathsWithNodes and no pathsWithIPs: they are the empty Map here.
parseEndpointOutput(input, decl) == EndpointResult(EndpointAcc(input, decl))

dnHead ==
  <<Lit("dn"), Star("space"), Lit(":"), Star("space"), Lit("uni/tn-"), Plus("notslash"),
    Lit("/ap-"), Plus("notslash"), Lit("/epg-"), Plus("notslash"),
    Lit("/rspathAtt-[topology/"), Lit("pod-"), Plus("digit")>>

vpcDnPattern ==
  dnHead \o <<Lit("/protpaths-"), Plus("idXdash"), Lit("/pathep-["), Plus("notrbracket"), Lit("]]")>>

singleDnPattern ==
  dnHead \o <<Lit("/paths-"), Plus("idX"), Lit("/pathep-["), Plus("notrbracket"), Lit("]]")>>

epgVlanPattern == <<Lit("VLAN"), Plus("digit")>>

\* the record a matched line pushes, if any
MoqueryRecord(isVpc, epg, pod, protpathsIdentifier, pathName, vlan) ==
  LET fullPath == IF isVpc
                  THEN pod \o "/protpaths-" \o protpathsIdentifier \o "/pathep-[" \o pathName \o "]"
                  ELSE pod \o "/paths-" \o protpathsIdentifier \o "/pathep-[" \o pathName \o "]"
  IN IF vlan # "" /\ pathName # ""
     THEN <<[vlan |-> vlan, epg |-> epg, path |-> pathName, fullPath |-> fullPath, pod |-> pod]>>
     ELSE <<>>

MoqueryEpg(isVpc, epg, pod, protpathsIdentifier, pathName) ==
  MoqueryRecord(isVpc, epg, pod, protpathsIdentifier, pathName,
                GroupOr(epg, match(epg, epgVlanPattern, TRUE), 2, 2))

MoqueryMatched(line, dnMatch, isVpc) ==
  IF dnMatch = <<>> THEN <<>>
  ELSE MoqueryEpg(isVpc, Group(line, dnMatch, 10, 10), Group(line, dnMatch, 12, 13),
                  Group(line, dnMatch, 15, 15), Group(line, dnMatch, 17, 17))

MoqueryVpcOrSingle(line, vpcMatch) ==
  IF vpcMatch # <<>> THEN MoqueryMatched(line, vpcMatch, TRUE)
  ELSE MoqueryMatched(line, match(line, singleDnPattern, TRUE), FALSE)

\* one iteration of the loop over the lines: the records it pushes
MoqueryLine(line) ==
  IF trim(line) = "" THEN <<>> ELSE MoqueryVpcOrSingle(line, match(line, vpcDnPattern, TRUE))

RECURSIVE MoqueryLoop(_, _)
MoqueryLoop(lines, i) ==
  IF i > Len(lines) THEN <<>> ELSE MoqueryLine(lines[i]) \o MoqueryLoop(lines, i + 1)

\* a parser that gives up on the whole text when one of its lines yields no record
parseMoqueryOutputStrict(input) ==
  IF \E n \in 1..Len(split(trim(input))) : MoqueryLine(split(trim(input))[n]) = <<>>
  THEN <<>>
  ELSE MoqueryLoop(split(trim(input)), 1)

parseMoqueryOutput(input) == MoqueryLoop(split(trim(input)), 1)

normalizePathName(path) == toLowerCase(StripBrackets(trim(path)))

extractVlanFromEpg(epgName) == GroupOr(epgName, match(epgName, epgVlanPattern, TRUE), 2, 2)

\* a lookup that forgets the filter on the endpoint's VLAN
allowedPathsMapHasAnyVlan(endpointData, atts, key) ==
  \E i \in 1..Len(atts) : normalizePathName(atts[i].path) = key

\* allowedPathsMap.has(key): the Map holds the attachments of the endpoint's VLAN
allowedPathsMapHas(endpointData, atts, key) ==
  \E i \in 1..Len(atts) :
    atts[i].vlan = endpointData.vlan /\ normalizePathName(atts[i].path) = key

\* a validation that gives a repeated path one result only
validateVlanAllowancesDistinct(endpointData, atts) ==
  LET firsts == SelectSeq([i \in 1..Len(endpointData.paths) |-> i],
                          LAMBDA i : \A j \in 1..(i - 1) : endpointData.paths[j] # endpointData.paths[i])
  IN [n \in 1..Len(firsts) |->
        LET path == endpointData.paths[firsts[n]]
            isAllowed == allowedPathsMapHas(endpointData, atts, normalizePathName(path))
        IN [path |-> path, hasActiveEndpoint |-> TRUE, isVlanAllowed |-> isAllowed,
            status |-> IF isAllowed THEN "allowed" ELSE "not_allowed"]]

validateVlanAllowances(endpointData, atts) ==
  [i \in 1..Len(endpointData.paths) |->
     LET path == endpointData.paths[i]
         isAllowed == allowedPathsMapHas(endpointData, atts, normalizePathName(path))
     IN [path |-> path, hasActiveEndpoint |-> TRUE, isVlanAllowed |-> isAllowed,
         status |-> IF isAllowed THEN "allowed" ELSE "not_allowed"]]

\* a filter that keeps every result
everyResultOf(results) == results

\* results.filter(r => r.status === 'not_allowed')
notAllowedOf(results) == SelectSeq(results, LAMBDA r : r.status = "not_allowed")

\* moqueryMap.get(key): the Map holds every attachment, a later one replacing an
\* earlier one of the same key; <<>> when the key is absent
moqueryMapGet(atts, key) ==
  LET hits == {i \in 1..Len(atts) : normalizePathName(atts[i].path) = key}
  IN IF hits = {} THEN <<>> ELSE <<atts[CHOOSE i \in hits : \A j \in hits : j <= i]>>

csvVpcPattern == <<Plus("idX"), Lit("-"), Plus("idX"), Lit("-VPC")>>

csvProtpathsPattern == <<Lit("protpaths-"), Plus("idX"), Lit("-"), Plus("idX")>>

csvSinglePattern == <<Bol, Plus("idX"), One("dashslash")>>

csvPathsPattern == <<Lit("paths-"), Plus("idX"), Lit("/")>>

SameNodes(fullPath, attMatch, node1, node2) ==
  attMatch # <<>> /\ Group(fullPath, attMatch, 2, 2) = node1 /\ Group(fullPath, attMatch, 4, 4) = node2

\* the pod of the first attachment whose fullPath names the two nodes, else dflt
RECURSIVE podOfNodes(_, _, _, _, _)
podOfNodes(atts, i, node1, node2, dflt) ==
  IF i > Len(atts) THEN dflt
  ELSE IF SameNodes(atts[i].fullPath, match(atts[i].fullPath, csvProtpathsPattern, FALSE), node1, node2)
       THEN atts[i].pod
       ELSE podOfNodes(atts, i + 1, node1, node2, dflt)

\* the pod of the first attachment whose fullPath names the node, else dflt
RECURSIVE podOfNode(_, _, _, _)
podOfNode(atts, i, node, dflt) ==
  IF i > Len(atts) THEN dflt
  ELSE IF GroupOr(atts[i].fullPath, match(atts[i].fullPath, csvPathsPattern, FALSE), 2, 2) = node
            /\ node # ""
       THEN atts[i].pod
       ELSE podOfNode(atts, i + 1, node, dflt)

\* the literal default pod of generateCSV
csvDefaultPod == "pod-1"

\* the default pod of generateCSV for this VLAN
csvVlanPod(vlan, vlanAttachments) ==
  IF Len(vlanAttachments) > 0 THEN vlanAttachments[1].pod ELSE csvDefaultPod

\* the VPC, single-homed and placeholder rules of generateCSV
csvInferred(pathName, atts, defaultPod, vpcMatch, singleMatch) ==
  IF vpcMatch # <<>>
  THEN podOfNodes(atts, 1, Group(pathName, vpcMatch, 1, 1), Group(pathName, vpcMatch, 3, 3), defaultPod)
         \o "/protpaths-" \o Group(pathName, vpcMatch, 1, 1) \o "-" \o Group(pathName, vpcMatch, 3, 3)
         \o "/pathep-[" \o pathName \o "]"
  ELSE IF singleMatch # <<>>
  THEN podOfNode(atts, 1, Group(pathName, singleMatch, 2, 2), defaultPod)
         \o "/paths-" \o Group(pathName, singleMatch, 2, 2) \o "/pathep-[" \o pathName \o "]"
  ELSE defaultPod \o "/paths-XXX/pathep-[" \o pathName \o "]"

csvResolved(vlan, pathName, atts, moqueryData) ==
  IF moqueryData # <<>> THEN moqueryData[1].fullPath
  ELSE csvInferred(pathName, atts,
                   csvVlanPod(vlan, SelectSeq(atts, LAMBDA att : att.vlan = vlan)),
                   match(pathName, csvVpcPattern, FALSE),
                   match(pathName, csvSinglePattern, FALSE))

\* the fully-qualified path generateCSV gives a denied path
csvFullPath(vlan, pathName, atts) ==
  csvResolved(vlan, pathName, atts, moqueryMapGet(atts, normalizePathName(pathName)))

\* one row of generateCSV
csvRow(vlan, epg, pathName, atts) ==
  vlan \o "," \o epg \o "," \o csvFullPath(vlan, pathName, atts)

csvRows(vlan, epg, results, atts) ==
  LET notAllowedPaths == notAllowedOf(results)
  IN [i \in 1..Len(notAllowedPaths) |-> csvRow(vlan, epg, notAllowedPaths[i].path, atts)]

header == "VLAN,EPG,PATH"

generateCSV(vlan, epg, results, endpointData, atts) ==
  header \o "\n" \o join(csvRows(vlan, epg, results, atts))

(***************************************************************************)
(* App.tsx                                                                 *)
(***************************************************************************)

appVpcPattern == <<Plus("digit"), Lit("-"), Plus("digit"), Lit("-VPC")>>

appSinglePattern == <<Bol, Plus("digit"), One("dashslash")>>

\* the literal default pod of handleExportAllCSV
appDefaultPod == "pod-2"

\* the pod of the first attachment of the same normalized path, else dflt
RECURSIVE podOfPath(_, _, _, _)
podOfPath(atts, i, normalizedPathName, dflt) ==
  IF i > Len(atts) THEN dflt
  ELSE IF toLowerCase(StripBrackets(trim(atts[i].path))) = normalizedPathName THEN atts[i].pod
  ELSE podOfPath(atts, i + 1, normalizedPathName, dflt)

exportInferred(path, pod, vpcMatch, singleMatch) ==
  IF vpcMatch # <<>>
  THEN pod \o "/protpaths-" \o Group(path, vpcMatch, 1, 1) \o "-" \o Group(path, vpcMatch, 3, 3)
           \o "/pathep-[" \o path \o "]"
  ELSE IF singleMatch # <<>>
  THEN pod \o "/paths-" \o Group(path, singleMatch, 2, 2) \o "/pathep-[" \o path \o "]"
  ELSE pod \o "/paths-XXX/pathep-[" \o path \o "]"

\* the fullPath handleExportAllCSV gives a denied path
exportFullPath(path, atts) ==
  exportInferred(path,
                 podOfPath(atts, 1, toLowerCase(StripBrackets(trim(path))), appDefaultPod),
                 match(path, appVpcPattern, FALSE),
                 match(path, appSinglePattern, FALSE))

exportVlanNumber(fromEpg, endpointData) == IF fromEpg # "" THEN fromEpg ELSE endpointData.vlan

exportEpgFormatted(epgName) ==
  IF startsWith(toLowerCase(epgName), "epg-") THEN epgName ELSE "epg-" \o epgName

exportRowsOf(notAllowed, pre, atts) ==
  [i \in 1..Len(notAllowed) |-> pre \o exportFullPath(notAllowed[i].path, atts)]

\* the rows handleExportAllCSV pushes for one entry
exportEntryRows(entry, atts) ==
  IF entry.results = <<>> \/ entry.endpointData = <<>> THEN <<>>
  ELSE exportRowsOf(notAllowedOf(entry.results[1]),
                    exportVlanNumber(extractVlanFromEpg(entry.epgName), entry.endpointData[1])
                      \o "," \o exportEpgFormatted(entry.epgName) \o ",",
                    atts)

RECURSIVE exportAllRows(_, _, _)
exportAllRows(es, i, atts) ==
  IF i > Len(es) THEN <<>> ELSE exportEntryRows(es[i], atts) \o exportAllRows(es, i + 1, atts)

(***************************************************************************)
(* The inputs                                                              *)
(***************************************************************************)

MaxLines == 2
MaxPaths == 2
MaxAtts == 2
MaxId == 2

\* the sequences over S of length lo..hi
SeqsOf(S, lo, hi) == UNION {[1..n -> S] : n \in lo..hi}

EndpointLines ==
  {"303  eth1/5  10.1.1.7  vlan-713",
   "vpc 425-426-VPC-31-32-PG VLAN-623",
   "304 eth1/5 vlan-714",
   "Node  Interface  vlan-999",
   "garbage",
   ""}

EndpointTexts == {join(ls) : ls \in SeqsOf(EndpointLines, 1, MaxLines)}

LineVpc ==
  "dn : uni/tn-T/ap-A/epg-EPG-VLAN623-x/rspathAtt-[topology/pod-2/protpaths-425-426/pathep-[425-426-VPC-31-32-PG]]"

LineSingle == "dn: uni/tn-T/ap-A/epg-VLAN713/rspathAtt-[topology/pod-1/paths-303/pathep-[eth1/5]]"

LineUpper == "DN : uni/tn-T/ap-A/epg-vlan713/rspathAtt-[topology/pod-3/Protpaths-3(X)-3(X)/pathep-[p1]]"

LineNoVlan == "dn: uni/tn-T/ap-A/epg-web/rspathAtt-[topology/pod-1/paths-303/pathep-[eth1/6]]"

\* a line cut before its closing brackets
LineTruncated == "dn: uni/tn-T/ap-A/epg-VLAN713/rspathAtt-[topology/pod-1/paths-303/pathep-[eth1/5"

MoqueryLines == {LineVpc, LineSingle, LineUpper, LineNoVlan, LineTruncated, "garbage", ""}

MoqueryTexts == {join(ls) : ls \in SeqsOf(MoqueryLines, 1, MaxLines)}

PathNames == {"eth1/5", " [ETH1/5] ", "425-426-VPC-31-32-PG", "303-P1"}

Vlans == {"713", "623"}

\* attachment records as parseMoqueryOutput yields them
AttPool ==
  {parseMoqueryOutput(l)[1] :
     l \in {LineVpc, LineSingle,
            "dn: uni/tn-T/ap-A/epg-VLAN713/rspathAtt-[topology/pod-3/protpaths-425-426/pathep-[425-426-vpc-31-32-pg]]",
            "dn: uni/tn-T/ap-A/epg-VLAN9/rspathAtt-[topology/pod-4/paths-303/pathep-[303-P2]]"}}

AttLists == SeqsOf(AttPool, 0, MaxAtts)

EndpointRecords ==
  {[vlan |-> v, ip |-> "", paths |-> ps, pod |-> "", pathsWithNodes |-> EmptyMap,
    pathsWithIPs |-> EmptyMap] : v \in Vlans, ps \in SeqsOf(PathNames, 0, MaxPaths)}

ResultLists ==
  UNION {[1..n -> {[path |-> p, hasActiveEndpoint |-> TRUE, isVlanAllowed |-> a,
                    status |-> IF a THEN "allowed" ELSE "not_allowed"] :
                     p \in PathNames, a \in BOOLEAN}] : n \in 0..MaxPaths}

LineSingle623 == "dn: uni/tn-T/ap-A/epg-VLAN623/rspathAtt-[topology/pod-1/paths-303/pathep-[eth1/5]]"

LineVpc714 ==
  "dn: uni/tn-T/ap-A/epg-VLAN714/rspathAtt-[topology/pod-2/protpaths-425-426/pathep-[425-426-VPC-31-32-PG]]"

\* the texts typed into the moquery field, the endpoint fields and the EPG fields (the
\* fields of an entry start empty).  The endpoint text gives three paths to the first
\* declaration of parseEndpointOutput and none to the second, whose VPC patterns need
\* 'vpc ' before the identifier or a word boundary after it.
AppMoqueryInputs == {"", join(<<LineSingle623, LineVpc714>>)}

AppEndpointInputs ==
  {"303  eth1/5  10.1.1.7  vlan-713\n425-426-VPC-31-32-PG_A vlan-713\n101-102-VPC-1-2-PG_B"}

AppEpgNames == {"EPG-VLAN713", "vlan623"}

(***************************************************************************)
(* The application: its state and its handlers                             *)
(***************************************************************************)

NoCall == [fn |-> "none", ret |-> <<>>]

newEntry(id) ==
  [id |-> id, endpointInput |-> "", epgName |-> "", results |-> <<>>, endpointData |-> <<>>]

AppInit ==
  /\ moqueryInput = ""
  /\ entries = <<newEntry(1)>>
  /\ pathAttachments = <<>>
  /\ error = <<>>
  /\ csv = <<>>
  /\ nextId = 2

Init ==
  /\ build \in {1, 2}
  /\ AppInit
  /\ call = NoCall

\* csv is the file the step downloaded, if any
setMoqueryInput(v) ==
  /\ moqueryInput' = v
  /\ csv' = <<>>
  /\ UNCHANGED <<build, entries, pathAttachments, error, nextId, call>>

\* Date.now() is a fresh id
addEntry ==
  /\ nextId <= MaxId
  /\ entries' = Append(entries, newEntry(nextId))
  /\ nextId' = nextId + 1
  /\ csv' = <<>>
  /\ UNCHANGED <<build, moqueryInput, pathAttachments, error, call>>

\* a removal without the test on the length of the list
removeEntryAlways(id) ==
  /\ entries' = SelectSeq(entries, LAMBDA e : e.id # id)
  /\ csv' = <<>>
  /\ UNCHANGED <<build, moqueryInput, pathAttachments, error, nextId, call>>

removeEntry(id) ==
  /\ entries' = IF Len(entries) > 1 THEN SelectSeq(entries, LAMBDA e : e.id # id) ELSE entries
  /\ csv' = <<>>
  /\ UNCHANGED <<build, moqueryInput, pathAttachments, error, nextId, call>>

updateEntry(id, field, value) ==
  /\ entries' = [i \in 1..Len(entries) |->
                   IF entries[i].id = id
                   THEN IF field = "endpointInput" THEN [entries[i] EXCEPT !.endpointInput = value]
                        ELSE [entries[i] EXCEPT !.epgName = value]
                   ELSE entries[i]]
  /\ csv' = <<>>
  /\ UNCHANGED <<build, moqueryInput, pathAttachments, error, nextId, call>>

\* parseMoqueryOutput(moqueryInput) for each text of the moquery field, evaluated once
parsedMoqueryOf == [t \in AppMoqueryInputs |-> parseMoqueryOutput(t)]

\* parseEndpointOutput(entry.endpointInput) for each text of an endpoint field and each
\* declaration, evaluated once
parsedEndpointOf ==
  [decl \in {1, 2} |-> [t \in AppEndpointInputs \cup {""} |-> parseEndpointOutput(t, decl)]]

validatedWith(entry, parsedMoquery, parsedEndpoint, vlanFromEpg) ==
  IF parsedEndpoint = <<>> THEN entry
  ELSE IF trim(entry.epgName) = "" THEN entry
  ELSE IF vlanFromEpg = "" THEN entry
  ELSE [entry EXCEPT
          !.results = <<validateVlanAllowances([parsedEndpoint[1] EXCEPT !.vlan = vlanFromEpg],
                                               parsedMoquery)>>,
          !.endpointData = <<[parsedEndpoint[1] EXCEPT !.vlan = vlanFromEpg]>>]

\* the entry handleValidate maps an entry to
validatedEntry(entry, parsedMoquery, decl) ==
  IF trim(entry.endpointInput) = "" THEN entry
  ELSE validatedWith(entry, parsedMoquery, parsedEndpointOf[decl][entry.endpointInput],
                     extractVlanFromEpg(entry.epgName))

moqueryError == "Unable to parse moquery data. Please check your input."

\* a Validate All without the early return on an empty attachment list
handleValidateNoReturn(parsedMoquery) ==
  /\ csv' = <<>>
  /\ error' = <<>>
  /\ pathAttachments' = parsedMoquery
  /\ entries' = [i \in 1..Len(entries) |-> validatedEntry(entries[i], parsedMoquery, build)]
  /\ UNCHANGED <<build, moqueryInput, nextId, call>>

\* parsedMoquery is parseMoqueryOutput(moqueryInput)
handleValidate(parsedMoquery) ==
  /\ csv' = <<>>
  /\ IF Len(parsedMoquery) = 0
     THEN /\ error' = <<moqueryError>>
          /\ UNCHANGED <<entries, pathAttachments>>
     ELSE /\ error' = <<>>
          /\ pathAttachments' = parsedMoquery
          /\ entries' = [i \in 1..Len(entries) |-> validatedEntry(entries[i], parsedMoquery, build)]
  /\ UNCHANGED <<build, moqueryInput, nextId, call>>

exportError == "No validation issues to export."

\* allRows is the rows pushed for the entries, in order
handleExportAllCSV(allRows) ==
  /\ IF Len(allRows) = 0
     THEN /\ error' = <<exportError>>
          /\ csv' = <<>>
     ELSE /\ csv' = <<header \o "\n" \o join(allRows)>>
          /\ UNCHANGED error
  /\ UNCHANGED <<build, moqueryInput, entries, pathAttachments, nextId, call>>

Next ==
  \/ \E v \in AppMoqueryInputs : setMoqueryInput(v)
  \/ addEntry
  \/ \E i \in 1..Len(entries) : removeEntry(entries[i].id)
  \/ \E i \in 1..Len(entries), v \in AppEndpointInputs : updateEntry(entries[i].id, "endpointInput", v)
  \/ \E i \in 1..Len(entries), v \in AppEpgNames : updateEntry(entries[i].id, "epgName", v)
  \/ handleValidate(parsedMoqueryOf[moqueryInput])
  \/ handleExportAllCSV(exportAllRows(entries, 1, pathAttachments))

Spec == Init /\ [][Next]_vars

(***************************************************************************)
(* The exported functions called directly: Init draws the arguments, the   *)
(* action runs the function and records what it returns.                   *)
(***************************************************************************)

NormalizeInputs == PathNames \cup {"ETH1/5", "[ eth1/5 ]", "eth1/5 ]", ""}

CsvCalls == {<<"713", "epg-VLAN713">>, <<"713", "VLAN713">>}

FnInit ==
  /\ AppInit
  /\ \/ /\ build = 1
        /\ \E p \in NormalizeInputs :
             call = [fn |-> "normalizePathName", path |-> p, ret |-> <<>>]
     \/ /\ build \in {1, 2}
        /\ \E t \in EndpointTexts :
             call = [fn |-> "parseEndpointOutput", input |-> t, ret |-> <<>>]
     \/ /\ build = 1
        /\ \E t \in MoqueryTexts :
             call = [fn |-> "parseMoqueryOutput", input |-> t, ret |-> <<>>]
     \/ /\ build = 1
        /\ \E e \in EndpointRecords, a \in AttLists :
             call = [fn |-> "validateVlanAllowances", endpointData |-> e, atts |-> a, ret |-> <<>>]
     \/ /\ build = 1
        /\ \E c \in CsvCalls, r \in ResultLists, a \in AttLists :
             call = [fn |-> "generateCSV", vlan |-> c[1], epg |-> c[2], results |-> r,
                     atts |-> a, ret |-> <<>>]

Pending(fn) == call.fn = fn /\ call.ret = <<>>

Return(v) == call' = [call EXCEPT !.ret = <<v>>] /\ UNCHANGED <<build, appVars>>

CallNormalizePathName == Pending("normalizePathName") /\ Return(normalizePathName(call.path))

CallParseEndpointOutput ==
  Pending("parseEndpointOutput") /\ Return(parseEndpointOutput(call.input, build))

CallParseMoqueryOutput == Pending("parseMoqueryOutput") /\ Return(parseMoqueryOutput(call.input))

CallValidateVlanAllowances ==
  Pending("validateVlanAllowances") /\ Return(validateVlanAllowances(call.endpointData, call.atts))

CallGenerateCSV ==
  Pending("generateCSV")
  /\ Return(generateCSV(call.vlan, call.epg, call.results, <<>>, call.atts))

FnNext ==
  \/ CallNormalizePathName
  \/ CallParseEndpointOutput
  \/ CallParseMoqueryOutput
  \/ CallValidateVlanAllowances
  \/ CallGenerateCSV

SpecFn == FnInit /\ [][FnNext]_vars

Returned(fn) == call.fn = fn /\ call.ret # <<>>

(***************************************************************************)
(* The program used either way: through the application, or through a      *)
(* direct call of an exported function.                                    *)
(***************************************************************************)

InitAll == Init \/ FnInit

NextAll ==
  \/ call = NoCall /\ Next
  \/ FnNext

SpecAll == InitAll /\ [][NextAll]_vars

(***************************************************************************)
(* The claims                                                              *)
(***************************************************************************)

\* some attachment of the VLAN has the path, both normalized
VlanPathAttached(vlan, path, atts) ==
  \E k \in 1..Len(atts) :
    atts[k].vlan = vlan /\ normalizePathName(atts[k].path) = normalizePathName(path)

\* C1: validateVlanAllowances gives one result per endpoint path, in order, and the
\* status of a path is 'allowed' exactly when some attachment whose vlan equals the
\* endpoint's vlan has a path with the same normalized form (trim, strip '[' and ']',
\* lowercase); it is 'not_allowed' in every other case.
C1_AllowedIffVlanPathAttached ==
  Returned("validateVlanAllowances") =>
    /\ Len(call.ret[1]) = Len(call.endpointData.paths)
    /\ \A i \in 1..Len(call.ret[1]) :
         /\ call.ret[1][i].path = call.endpointData.paths[i]
         /\ call.ret[1][i].status =
              IF VlanPathAttached(call.endpointData.vlan, call.endpointData.paths[i], call.atts)
              THEN "allowed" ELSE "not_allowed"

\* C1, its case: one path is allowed by an attachment that spells it differently, and
\* another is denied although an attachment of another VLAN has that very path
C1_Witness ==
  /\ Returned("validateVlanAllowances")
  /\ \E i \in 1..Len(call.ret[1]) :
       /\ call.ret[1][i].status = "allowed"
       /\ \A k \in 1..Len(call.atts) : call.atts[k].path # call.endpointData.paths[i]
  /\ \E i \in 1..Len(call.ret[1]) :
       /\ call.ret[1][i].status = "not_allowed"
       /\ \E k \in 1..Len(call.atts) : call.atts[k].path = call.endpointData.paths[i]

\* the entry is one handleValidate validates when the attachment list is not empty: its
\* endpoint text parses to a record and its EPG name carries a VLAN
Validatable(entry) ==
  /\ trim(entry.endpointInput) # ""
  /\ parsedEndpointOf[build][entry.endpointInput] # <<>>
  /\ extractVlanFromEpg(entry.epgName) # ""

\* one result per path, every one of them 'not_allowed'
AllDenied(results, paths) ==
  /\ Len(results) = Len(paths)
  /\ \A i \in 1..Len(results) : results[i].status = "not_allowed"

\* validateVlanAllowances called with an empty attachment list denies every path
DirectDenyByDefault ==
  Returned("validateVlanAllowances") /\ call.atts = <<>>
    => AllDenied(call.ret[1], call.endpointData.paths)

endsWith(s, t) == Len(s) >= Len(t) /\ SubSeq(s, Len(s) - Len(t) + 1, Len(s)) = t

\* the data rows of a CSV text: its lines after the first, a last empty line apart
DataRows(text) == SelectSeq(Tail(split(text)), LAMBDA row : row # "")

\* the results of status 'not_allowed', in order
Denied(results) == SelectSeq(results, LAMBDA r : r.status = "not_allowed")

\* the entry is one the export processes
Processed(entry) == entry.results # <<>> /\ entry.endpointData # <<>>

\* the denied results of the processed entries, in the order of the entries
RECURSIVE DeniedOfEntries(_, _)
DeniedOfEntries(es, i) ==
  IF i > Len(es) THEN <<>>
  ELSE (IF Processed(es[i]) THEN Denied(es[i].results[1]) ELSE <<>>) \o DeniedOfEntries(es, i + 1)

C3_SameRowsAtBothCallSites ==
  Returned("generateCSV") =>
    DataRows(call.ret[1])
      = exportRowsOf(Denied(call.results), call.vlan \o "," \o call.epg \o ",", call.atts)

\* C4 as stated: when the exported file is produced, a denied interface that the
\* endpoint text gave with a node number, for a VLAN with no attachment at all, has the
\* row '<vlan>,<epg>,<pod>/paths-<node>/pathep-[<interface>]' for some pod: the row
\* carries the node number of the endpoint line.
C4_RowCarriesNode ==
  csv # <<>> =>
    \A i \in 1..Len(entries) :
      Processed(entries[i]) =>
        \A k \in 1..Len(entries[i].results[1]) :
          LET e == entries[i].endpointData[1]
              r == entries[i].results[1][k]
          IN (/\ r.status = "not_allowed"
              /\ r.path \in DOMAIN e.pathsWithNodes
              /\ \A a \in 1..Len(pathAttachments) : pathAttachments[a].vlan # e.vlan)
               => \E n \in 1..Len(DataRows(csv[1])) :
                    /\ startsWith(DataRows(csv[1])[n], e.vlan \o ",")
                    /\ endsWith(DataRows(csv[1])[n],
                                "/paths-" \o e.pathsWithNodes[r.path]
                                  \o "/pathep-[" \o r.path \o "]")

\* the path name a row ends with: the text inside its 'pathep-[...]'
RowPathName(row) ==
  SubSeq(row, Least({p \in 1..(Len(row) - 8) : SubSeq(row, p, p + 8) = "/pathep-["}) + 9, Len(row) - 1)

\* the first line of the text is 'VLAN,EPG,PATH' and its data rows are one per denied
\* result, in order: each row ends with 'pathep-[<name>]', the name being the path of
\* its result up to normalization
HeaderAndRowsOf(lines, rows, denied) ==
  /\ lines[1] = "VLAN,EPG,PATH"
  /\ Len(rows) = Len(denied)
  /\ \A n \in 1..Len(denied) :
       /\ includes(rows[n], "/pathep-[")
       /\ endsWith(rows[n], "]")
       /\ normalizePathName(RowPathName(rows[n])) = normalizePathName(denied[n].path)

HeaderAndRows(text, denied) == HeaderAndRowsOf(split(text), DataRows(text), denied)

\* C5: every CSV text an export produces (what generateCSV returns, the file
\* handleExportAllCSV downloads) starts with the header line 'VLAN,EPG,PATH' and has as
\* many data rows as there are results of status 'not_allowed' in the processed
\* entries, one row per denied result, in input order.
C5_HeaderAndOneRowPerDenied ==
  /\ Returned("generateCSV") => HeaderAndRows(call.ret[1], Denied(call.results))
  /\ csv # <<>> => HeaderAndRows(csv[1], DeniedOfEntries(entries, 1))

\* C5, its case: a file is downloaded for entries that hold both allowed and denied
\* results, more than one of them denied
C5_Witness ==
  /\ csv # <<>>
  /\ Len(DeniedOfEntries(entries, 1)) >= 2
  /\ \E i \in 1..Len(entries) :
       /\ Processed(entries[i])
       /\ \E k \in 1..Len(entries[i].results[1]) : entries[i].results[1][k].status = "allowed"

\* C6 as stated: when the exported file is produced, a denied path whose normalized
\* name is the normalized path of a stored attachment has a row that ends with the
\* fullPath of such an attachment, verbatim, whatever the VPC, single-homed and
\* placeholder rules would give.
C6_ExactMatchVerbatim ==
  csv # <<>> =>
    \A i \in 1..Len(entries) :
      Processed(entries[i]) =>
        \A k \in 1..Len(entries[i].results[1]) :
          LET r == entries[i].results[1][k]
              same == {a \in 1..Len(pathAttachments) :
                         normalizePathName(pathAttachments[a].path) = normalizePathName(r.path)}
          IN (r.status = "not_allowed" /\ same # {})
               => \E n \in 1..Len(DataRows(csv[1])), a \in same :
                    endsWith(DataRows(csv[1])[n], "," \o pathAttachments[a].fullPath)

\* C7 as stated: normalization is a canonical form: ' [ETH1/5] ' and 'ETH1/5' have the
\* key of 'eth1/5', and normalizing a key that normalization returned gives it back
\* unchanged.
C7_CanonicalAndIdempotent ==
  Returned("normalizePathName") =>
    /\ call.path \in {" [ETH1/5] ", "ETH1/5", "eth1/5"} => call.ret[1] = "eth1/5"
    /\ normalizePathName(call.ret[1]) = call.ret[1]

\* the lines a declaration of parseEndpointOutput scans: the first skips the blank lines
\* and the header line, the second skips nothing
ScannedLines(input, decl) ==
  IF decl = 1
  THEN SelectSeq(split(trim(input)),
                 LAMBDA l : trim(l) # "" /\ ~(includes(l, "Node") /\ includes(l, "Interface")))
  ELSE split(trim(input))

HasVlanToken(line) == match(line, vlanPattern, TRUE) # <<>>

\* the line gives a path: an interface with its node, or a VPC identifier
HasPath(line, decl) ==
  IF decl = 1
  THEN \/ match(line, nodeInterfacePattern, TRUE) # <<>>
       \/ \E k \in 1..Len(vpcPatterns) : match(line, vpcPatterns[k], TRUE) # <<>>
  ELSE \/ match(line, vpcPatternOld1, TRUE) # <<>>
       \/ match(line, vpcPatternOld2, TRUE) # <<>>

VlanTokenFound(lines) == \E n \in 1..Len(lines) : HasVlanToken(lines[n])

PathExtracted(lines, decl) == \E n \in 1..Len(lines) : HasPath(lines[n], decl)

NoDuplicates(seq) == \A i, j \in 1..Len(seq) : seq[i] = seq[j] => i = j

C8_WitnessNull ==
  /\ Returned("parseEndpointOutput")
  /\ call.ret[1] = <<>>
  /\ VlanTokenFound(ScannedLines(call.input, build))

\* the digits of the first scanned line that holds a VLAN token
FirstVlan(lines) ==
  LET n == Least({m \in 1..Len(lines) : HasVlanToken(lines[m])})
  IN Group(lines[n], match(lines[n], vlanPattern, TRUE), 2, 2)

\* C9 as stated: the vlan of the record parseEndpointOutput returns is the digits of
\* the first scanned line, in input order, that holds a 'vlan-<digits>' token (any
\* case); VLAN tokens of later lines never change it.
C9_FirstVlanWins ==
  Returned("parseEndpointOutput") /\ call.ret[1] # <<>>
    => call.ret[1][1].vlan = FirstVlan(ScannedLines(call.input, build))

\* the text of the line after 'topology/' up to the bracket that closes 'pathep-[...'
AfterTopology(line) ==
  LET p == Least({x \in 1..(Len(line) - 8) : toLowerCase(SubSeq(line, x, x + 8)) = "topology/"})
      q == Least({x \in (p + 9)..(Len(line) - 1) : SubSeq(line, x, x + 1) = "]]"})
  IN SubSeq(line, p + 9, q)

\* C10 as stated: every record parseMoqueryOutput returns comes from a line of the
\* text, and its fullPath is byte for byte the text that follows 'topology/' inside
\* that line's rspathAtt-[...].
C10_FullPathMirrorsLine ==
  Returned("parseMoqueryOutput") =>
    \A k \in 1..Len(call.ret[1]) :
      \E n \in 1..Len(split(trim(call.input))) :
        /\ MoqueryLine(split(trim(call.input))[n]) = <<call.ret[1][k]>>
        /\ call.ret[1][k].fullPath = AfterTopology(split(trim(call.input))[n])

\* the line matches the VPC or the single-homed pattern and its EPG name carries a VLAN
ValidMoqueryLine(line) ==
  \/ /\ match(line, vpcDnPattern, TRUE) # <<>>
     /\ extractVlanFromEpg(Group(line, match(line, vpcDnPattern, TRUE), 10, 10)) # ""
  \/ /\ match(line, singleDnPattern, TRUE) # <<>>
     /\ extractVlanFromEpg(Group(line, match(line, singleDnPattern, TRUE), 10, 10)) # ""

\* the valid lines of a text, in order
ValidLines(input) == SelectSeq(split(input), ValidMoqueryLine)

\* C11: parseMoqueryOutput returns one record per valid line of the text, in input
\* order, each the record that line yields on its own; the other lines are skipped,
\* and the text without them yields the same list.
C11_LinesIndependent ==
  Returned("parseMoqueryOutput") =>
    /\ Len(call.ret[1]) = Len(ValidLines(call.input))
    /\ \A k \in 1..Len(call.ret[1]) :
         <<call.ret[1][k]>> = parseMoqueryOutput(ValidLines(call.input)[k])
    /\ call.ret[1] = parseMoqueryOutput(join(ValidLines(call.input)))

\* C11, its case: a text of a corrupted line and a valid line, in either order, has
\* yielded the record of the valid line
C11_Witness ==
  /\ Returned("parseMoqueryOutput")
  /\ Len(split(call.input)) = 2
  /\ Len(ValidLines(call.input)) = 1
  /\ \E n \in 1..2 : includes(split(call.input)[n], "rspathAtt") /\ ~ValidMoqueryLine(split(call.input)[n])
  /\ Len(call.ret[1]) = 1

\* the entry's endpoint text is not blank and parseEndpointOutput returns null for it
Unparseable(entry) ==
  /\ trim(entry.endpointInput) # ""
  /\ parsedEndpointOf[build][entry.endpointInput] = <<>>

\* C12 as stated: when Validate All (handleValidate) gets past the attachment text and
\* an entry's endpoint text cannot be parsed, the step leaves an error message set and
\* that entry without validation results.
C12_UnparseableReported ==
  [][handleValidate(parsedMoqueryOf[moqueryInput]) /\ parsedMoqueryOf[moqueryInput] # <<>>
       => \A i \in 1..Len(entries) :
            Unparseable(entries[i]) => error' # <<>> /\ entries'[i].results = <<>>]_vars

\* the positions of the commas of a row
Commas(row) == {p \in 1..Len(row) : Ch(row, p) = ","}

\* the first and the second field of a row with two commas or more
VlanField(row) == SubSeq(row, 1, Least(Commas(row)) - 1)

EpgField(row) ==
  SubSeq(row, Least(Commas(row)) + 1, Least(Commas(row) \ {Least(Commas(row))}) - 1)

\* the label with an 'epg-' prefix, added unless the label starts with 'epg-'
Prefixed(label) == IF startsWith(label, "epg-") THEN label ELSE "epg-" \o label

\* the row is '<vlan-digits>,<epg-string>,<fullPath>' with the label prefixed
RowOfLabel(row, label) ==
  /\ Cardinality(Commas(row)) = 2
  /\ VlanField(row) # ""
  /\ \A p \in 1..Len(VlanField(row)) : IsDigit(Ch(row, p))
  /\ EpgField(row) = Prefixed(label)

\* the rows generateCSV returned carry the label it was given, prefixed
CsvRowsPrefixed ==
  Returned("generateCSV") =>
    \A n \in 1..Len(DataRows(call.ret[1])) : RowOfLabel(DataRows(call.ret[1])[n], call.epg)

\* the rows handleExportAllCSV downloaded carry the EPG name of an entry, prefixed
AppRowsPrefixed ==
  csv # <<>> =>
    \A n \in 1..Len(DataRows(csv[1])) :
      \E i \in 1..Len(entries) :
        Processed(entries[i]) /\ RowOfLabel(DataRows(csv[1])[n], entries[i].epgName)

\* C13 as stated: every data row of a CSV, whether returned by generateCSV for the
\* label it was given or downloaded by handleExportAllCSV for the EPG names of the
\* entries, is '<vlan-digits>,<epg-string>,<fullPath>' where the EPG field is the label
\* itself when the label starts with 'epg-' and 'epg-' followed by the label otherwise.
C13_EpgFieldPrefixed == CsvRowsPrefixed /\ AppRowsPrefixed

\* the attachments, by index, that satisfy a test
AttsWith(atts, Test(_)) == {a \in 1..Len(atts) : Test(atts[a])}

\* the pod the statement gives a VPC path of nodes n1 and n2: that of the first
\* attachment whose fullPath contains 'protpaths-<n1>-<n2>', else that of the first
\* attachment of the export VLAN, else the literal default
StatedPod(n1, n2, vlan, atts, dflt) ==
  LET sameNodes == AttsWith(atts, LAMBDA att : includes(att.fullPath, "protpaths-" \o n1 \o "-" \o n2))
      sameVlan == AttsWith(atts, LAMBDA att : att.vlan = vlan)
  IN IF sameNodes # {} THEN atts[Least(sameNodes)].pod
     ELSE IF sameVlan # {} THEN atts[Least(sameVlan)].pod
     ELSE dflt

\* the path has the VPC shape and no attachment has its normalized name
VpcWithoutExactMatch(path, atts) ==
  /\ match(path, appVpcPattern, FALSE) # <<>>
  /\ AttsWith(atts, LAMBDA att : normalizePathName(att.path) = normalizePathName(path)) = {}

\* the fullPath the statement gives such a path
StatedVpcFullPath(path, vlan, atts, dflt) ==
  LET m == match(path, appVpcPattern, FALSE)
      n1 == Group(path, m, 1, 1)
      n2 == Group(path, m, 3, 3)
  IN StatedPod(n1, n2, vlan, atts, dflt) \o "/protpaths-" \o n1 \o "-" \o n2
       \o "/pathep-[" \o path \o "]"

\* some data row of the text has this export VLAN's stated fullPath for the path
HasStatedRow(text, path, atts, dflt) ==
  \E n \in 1..Len(DataRows(text)) :
    endsWith(DataRows(text)[n],
             "," \o StatedVpcFullPath(path, VlanField(DataRows(text)[n]), atts, dflt))

\* the statement at generateCSV, whose literal default pod is 'pod-1'
CsvVpcPodAsStated ==
  Returned("generateCSV") =>
    \A k \in 1..Len(call.results) :
      (call.results[k].status = "not_allowed" /\ VpcWithoutExactMatch(call.results[k].path, call.atts))
        => HasStatedRow(call.ret[1], call.results[k].path, call.atts, "pod-1")

\* the statement at handleExportAllCSV, whose literal default pod is 'pod-2'
AppVpcPodAsStated ==
  csv # <<>> =>
    \A i \in 1..Len(entries) :
      Processed(entries[i]) =>
        \A k \in 1..Len(entries[i].results[1]) :
          (/\ entries[i].results[1][k].status = "not_allowed"
           /\ VpcWithoutExactMatch(entries[i].results[1][k].path, pathAttachments))
            => HasStatedRow(csv[1], entries[i].results[1][k].path, pathAttachments, "pod-2")

\* C14 as stated: at both call sites a denied path of the shape '<n1>-<n2>-VPC' with no
\* exact attachment match gets '<pod>/protpaths-<n1>-<n2>/pathep-[<path>]', the pod
\* being that of the first attachment whose fullPath contains 'protpaths-<n1>-<n2>',
\* else that of the first attachment of the export VLAN, else the site's literal default.
C14_VpcPodByNodesThenVlan == CsvVpcPodAsStated /\ AppVpcPodAsStated

\* C15: validateVlanAllowances returns one result per element of endpointData.paths,
\* in the same order (result i has the path paths[i]); every result has
\* hasActiveEndpoint = true, and its status is 'allowed' exactly when isVlanAllowed is
\* true and 'not_allowed' exactly when it is false.
C15_OneResultPerPath ==
  Returned("validateVlanAllowances") =>
    /\ Len(call.ret[1]) = Len(call.endpointData.paths)
    /\ \A i \in 1..Len(call.ret[1]) :
         /\ call.ret[1][i].path = call.endpointData.paths[i]
         /\ call.ret[1][i].hasActiveEndpoint = TRUE
         /\ call.ret[1][i].isVlanAllowed \in BOOLEAN
         /\ call.ret[1][i].status = "allowed" <=> call.ret[1][i].isVlanAllowed
         /\ call.ret[1][i].status = "not_allowed" <=> ~call.ret[1][i].isVlanAllowed

\* C15, its case: a list of two paths has got a denied result for the first and an
\* allowed result for the second
C15_Witness ==
  /\ Returned("validateVlanAllowances")
  /\ Len(call.endpointData.paths) = 2
  /\ call.ret[1][1].status = "not_allowed" /\ ~call.ret[1][1].isVlanAllowed
  /\ call.ret[1][2].status = "allowed" /\ call.ret[1][2].isVlanAllowed

\* the row is that of a denied path of the entry, under the VLAN the entry's results
\* were computed for (the vlan of the endpointData that handleValidate stored with them)
RowOfValidation(row, entry) ==
  /\ Processed(entry)
  /\ VlanField(row) = entry.endpointData[1].vlan
  /\ includes(EpgField(row), entry.endpointData[1].vlan)
  /\ \E k \in 1..Len(entry.results[1]) :
       /\ entry.results[1][k].status = "not_allowed"
       /\ normalizePathName(RowPathName(row)) = normalizePathName(entry.results[1][k].path)

\* C16 as stated: whatever edits, validations and exports came before, every row of the
\* file handleExportAllCSV downloads pairs a denied path of an entry with the VLAN and
\* the EPG that entry's results were computed under; an edit after the validation does
\* not move the verdicts to another VLAN or EPG.
C16_RowsUnderValidatedVlan ==
  csv # <<>> =>
    \A n \in 1..Len(DataRows(csv[1])) :
      \E i \in 1..Len(entries) : RowOfValidation(DataRows(csv[1])[n], entries[i])

====
